---- MODULE Spec2Model ----
(***************************************************************************)
(* A model of the proxy's two request handlers:                            *)
(*   - the page handler (handler + fetchPageWithRetry + startBrowser +     *)
(*     saveCookies/applyCookies), in its two variants: the complete one    *)
(*     (src/unnamed/part_000) and the older one (src/proxyHandler.js);     *)
(*   - the asset handler (handleAsset) with its in-memory cache.           *)
(* One action is one synchronous segment of the JavaScript code: the code  *)
(* between two awaits runs atomically, and another request may run at each *)
(* await.  The renderer (playwright) and the HTTP client (axios) are the   *)
(* environment: each awaited call either returns a value drawn from a      *)
(* small set or throws an error drawn from Errors.                         *)
(***************************************************************************)
EXTENDS Integers, Sequences, FiniteSets, TLC

VARIABLES
  browser,     \* module variable `browser`: 0 = undefined, else the instance
  launches,    \* how many times chromium.launch() resolved
  cookieJars,  \* module Map cookieJars: hostname -> cookie set
  assetCache,  \* module Map assetCache: asset url -> entry
  now,         \* the wall clock Date.now() reads, in ms
  req,         \* per request slot: the locals of the running handler
  ctx,         \* per request slot: the Koa response being built
  saved,       \* history: hostname -> the url and cookies of the last saveCookies
  env          \* the environment: what clients request, what sites answer,
               \* and how many requests, failures and clock steps are left

vars == <<browser, launches, cookieJars, assetCache, now, req, ctx, saved, env>>

----------------------------------------------------------------------------
(* Bounds of the model *)

\* requests one run accepts
MaxRequests == 2
\* failures the renderer / HTTP client may inject in one run
MaxFaults == 3
\* clock steps in one run
MaxTicks == 3
\* asset requests one run of SpecAsset accepts, and the failures of axios in it
MaxAssetRequests == 3
MaxAssetFaults == 1
\* references and tags in the content of one page
MaxContent == 3

(* Program constants *)

\* fetchPageWithRetry(url, maxRetries = 3)
MaxRetries == 3
\* const CACHE_TTL = 3600000
CACHE_TTL == 3600000
\* page.waitForTimeout(5000) of the challenge wait
ChallengeDelay == 5000
\* 1000 * Math.pow(2, attempt - 1)
BackoffBase == 1000

Procs == {1, 2}

----------------------------------------------------------------------------
(* URLs.  A url string is modelled by its three parts as written by the    *)
(* client; NoUrl is a missing (undefined or empty) query parameter and     *)
(* Garbage a string `new URL` cannot parse.                                *)

Url(s, h, p) == [scheme |-> s, host |-> h, path |-> p]
NoUrl == Url("", "", "")
Garbage == Url("?", "?", "?")

\* what clients send as ?url=
RawUrls ==
  { NoUrl, Garbage,
    Url("ftp", "a", "/x"),
    Url("https", "a", "/x"),
    Url("HTTP", "A", "/y"),
    Url("http", "b", "/x") }

\* where a navigation may end up instead of the requested url
RedirectTargets == { Url("http", "b", "/x") }

\* WHATWG URL parsing lower-cases the scheme and the host
Lower(s) ==
  CASE s = "HTTP" -> "http"
    [] s = "A" -> "a"
    [] OTHER -> s

\* new URL(u) succeeds
Parses(u) == u.scheme \in {"http", "HTTP", "https", "ftp"}

\* new URL(u).protocol
Protocol(u) ==
  CASE Lower(u.scheme) = "http" -> "http:"
    [] Lower(u.scheme) = "https" -> "https:"
    [] OTHER -> "ftp:"

\* new URL(u).hostname
Hostname(u) == Lower(u.host)

\* new URL(u).href: the serialisation the renderer reports as page.url()
Href(u) == Url(Lower(u.scheme), Lower(u.host), u.path)

\* !url  (undefined and "" are falsy)
Falsy(u) == u = NoUrl

\* a validateUrl that forgets the protocol test
validateUrlAnyScheme(u) ==
  IF ~Parses(u) THEN FALSE ELSE TRUE

validateUrl(u) ==
  IF ~Parses(u) THEN FALSE
  ELSE Protocol(u) = "http:" \/ Protocol(u) = "https:"

Hosts == { Hostname(u) : u \in { v \in RawUrls : validateUrl(v) } \cup RedirectTargets }

----------------------------------------------------------------------------
(* Content types.  NoHeader is a response without a content-type header.   *)

NoHeader == ""
ContentTypes ==
  { "text/html", "text/css", "application/javascript", "text/plain",
    "image/png", "application/pdf", NoHeader }

\* /^image|^audio|^video|^application\/pdf/i.test(contentType)
IsBinary(ct) == ct \in {"image/png", "audio/mpeg", "video/mp4", "application/pdf"}
\* /html/i.test(contentType)
IsHtml(ct) == ct \in {"text/html", "application/xhtml+xml"}
\* /css/i.test(contentType)
IsCss(ct) == ct = "text/css"
\* /javascript/i.test(contentType)
IsJs(ct) == ct \in {"application/javascript", "text/javascript"}

\* headers['content-type'] || 'text/html'
HeaderOrDefault(h) == IF h = NoHeader THEN "text/html" ELSE h

----------------------------------------------------------------------------
(* Errors and cookies *)

Errors == {"e1", "e2"}
NoError == "none"
\* ReferenceError raised where proxyHandler.js calls a function it never defines
RefError == "getRandomUserAgent is not defined"

\* `Failed to fetch page after ${maxRetries} attempts: ${lastError.message}`
Wrapped(n, msg) == <<"Failed to fetch page after", n, "attempts:", msg>>
Plain(msg) == <<msg>>

CookieSets == { {}, {"c1"}, {"c1", "c2"} }

\* a set that forgets the other keys
MapSetOnly(m, k, v) == [x \in {k} |-> v]

\* Map.set(k, v)
MapSet(m, k, v) == [x \in DOMAIN m \cup {k} |-> IF x = k THEN v ELSE m[x]]
\* Map.delete(k)
MapDelete(m, k) == [x \in DOMAIN m \ {k} |-> m[x]]
\* Map.get(k) || []
MapGetOrEmpty(m, k) == IF k \in DOMAIN m THEN m[k] ELSE {}
EmptyMap == [x \in {} |-> {}]

----------------------------------------------------------------------------
(* Request slots *)

Methods == {"GET", "HEAD"}
\* the complete handler (part_000) and the older one (proxyHandler.js)
Variants == {"full", "legacy"}

Body(kind, by, details, url) ==
  [kind |-> kind, by |-> by, details |-> details, url |-> url]
NoBody == Body("none", "", <<>>, NoUrl)

\* a fresh Koa context: status 404 until a body or a status is set
FreshCtx ==
  [status |-> 404, type |-> NoHeader, body |-> NoBody, location |-> NoUrl,
   cors |-> FALSE]

IdleReq ==
  [kind |-> "none", variant |-> "none", method |-> "GET", url |-> NoUrl,
   pc |-> "idle",
   br |-> 0,              \* const browser of fetchPageWithRetry
   attempt |-> 0,         \* let attempt
   page |-> 0,            \* let page: the attempt whose session it refers to, 0 = undefined
   opened |-> {},         \* history: attempts whose browser.newPage() resolved
   open |-> {},           \* sessions (by attempt) opened and not closed
   lastError |-> NoError, \* let lastError (its message)
   errAttempt |-> 0,      \* history: the attempt that recorded lastError
   slept |-> <<>>,        \* history: the backoff delays started, in order
   final |-> NoUrl,       \* page.url() after the navigation
   rtype |-> NoHeader,    \* content-type header of the resource at final
   challenge |-> FALSE,   \* the content read after load held a challenge marker
   waited |-> 0,          \* history: challenge waits of the current attempt
   inject |-> {},         \* cookies handed to addCookies in the current attempt
   fetch |-> "none",      \* how fetchPageWithRetry ended: success, exhausted, launchFailed
   contentType |-> NoHeader, \* let contentType of handler
   upstream |-> 0,        \* history: axios.get calls of the request
   t |-> 0,               \* const now of handleAsset
   hit |-> FALSE,         \* history: the request was served from the cache
   evicted |-> FALSE,     \* history: the lookup removed a stale entry
   timedOut |-> FALSE,    \* history: a network-idle wait of the attempt timed out
   content |-> <<>>,      \* let content of handler: what page.content() returned
   age |-> -1]            \* history: now - cachedAsset.timestamp at the lookup, -1 without entry

\* ctx.body = {...}: Koa answers an object as JSON
JsonError(c, status, kind, details, url) ==
  [c EXCEPT !.status = status, !.type = "application/json",
            !.body = Body(kind, "", details, url)]

\* catch (error) of handler: part_000 adds url: targetUrl
Error500(p, details) ==
  JsonError(ctx[p], 500, "error500", details,
            IF req[p].variant = "full" THEN req[p].url ELSE NoUrl)

Fault == env.faults > 0 /\ env' = [env EXCEPT !.faults = @ - 1]

SetReq(p, r) == req' = [req EXCEPT ![p] = r]
SetCtx(p, c) == ctx' = [ctx EXCEPT ![p] = c]

Globals == <<browser, launches, cookieJars, assetCache, now, saved>>

----------------------------------------------------------------------------
(* startBrowser *)

\* if (!browser)
BrowserMissing == browser = 0

----------------------------------------------------------------------------
(* handler: from its entry to the first await *)

StartPage(p, m, u, v) ==
  /\ p \in env.active
  /\ u \in env.urls /\ m \in env.methods /\ v \in env.variants
  /\ req[p].pc \in {"idle", "done"}
  /\ env.reqs > 0
  /\ env' = [env EXCEPT !.reqs = @ - 1, !.last = p]
  /\ LET r == [IdleReq EXCEPT !.kind = "page", !.variant = v, !.method = m, !.url = u]
     IN
     IF m # "GET" THEN
       /\ SetReq(p, [r EXCEPT !.pc = "done"])
       /\ SetCtx(p, JsonError(FreshCtx, 405, "methodNotAllowed", <<>>, NoUrl))
     ELSE IF Falsy(u) \/ ~validateUrl(u) THEN
       /\ SetReq(p, [r EXCEPT !.pc = "done"])
       /\ SetCtx(p, JsonError(FreshCtx, 400, "invalidUrl", <<>>, NoUrl))
     ELSE
       \* CORS and security headers are set, then fetchPageWithRetry(targetUrl)
       \* calls startBrowser
       /\ SetCtx(p, [FreshCtx EXCEPT !.cors = TRUE])
       /\ IF BrowserMissing
          THEN SetReq(p, [r EXCEPT !.pc = "launch"])
          ELSE SetReq(p, [r EXCEPT !.pc = "newPage", !.br = browser, !.attempt = 1])
  /\ UNCHANGED Globals

\* browser = await chromium.launch(...); return browser
LaunchOk(p) ==
  /\ req[p].pc = "launch"
  /\ browser' = launches + 1
  /\ launches' = launches + 1
  /\ SetReq(p, [req[p] EXCEPT !.pc = "newPage", !.br = launches + 1, !.attempt = 1])
  /\ UNCHANGED <<cookieJars, assetCache, now, saved, ctx, env>>

\* chromium.launch rejects: the error leaves fetchPageWithRetry before its loop
LaunchFail(p, e) ==
  /\ req[p].pc = "launch"
  /\ Fault
  /\ SetReq(p, [req[p] EXCEPT !.pc = "done", !.fetch = "launchFailed"])
  /\ SetCtx(p, Error500(p, Plain(e)))
  /\ UNCHANGED Globals

----------------------------------------------------------------------------
(* fetchPageWithRetry: the catch block and the end of the loop *)

\* a schedule that starts at two seconds
BackoffFromTwo(attempt) == BackoffBase * 2 ^ attempt

\* 1000 * Math.pow(2, attempt - 1)
Backoff(attempt) == BackoffBase * 2 ^ (attempt - 1)

\* a loop without a bound
MayRetryAlways(attempt) == TRUE

\* a loop bound that is off by one
MayRetryOffByOne(attempt) == attempt <= MaxRetries

\* if (attempt < maxRetries) before the delay, and attempt <= maxRetries of
\* the for loop after attempt++: another attempt follows the failed one
MayRetry(attempt) == attempt < MaxRetries

\* after the failed attempt's session is dealt with: back off, or leave the loop
\* and throw, which handler's catch turns into the 500 response
EndAttempt(p, r) ==
  IF MayRetry(r.attempt) THEN
    /\ SetReq(p, [r EXCEPT !.pc = "backoff", !.slept = Append(@, Backoff(r.attempt))])
    /\ UNCHANGED ctx
  ELSE
    /\ SetReq(p, [r EXCEPT !.pc = "done", !.fetch = "exhausted"])
    /\ SetCtx(p, Error500(p, Wrapped(MaxRetries, r.lastError)))

\* a catch block that keeps the first error: lastError = lastError || error
FailAttemptKeepFirst(p, r, e) ==
  LET r1 == IF r.lastError = NoError
            THEN [r EXCEPT !.lastError = e, !.errAttempt = r.attempt]
            ELSE r
  IN
  IF r1.page # 0
  THEN SetReq(p, [r1 EXCEPT !.pc = "closeFailed"]) /\ UNCHANGED ctx
  ELSE EndAttempt(p, r1)

\* catch (error): lastError = error; if (page) await page.close().catch(...)
FailAttempt(p, r, e) ==
  LET r1 == [r EXCEPT !.lastError = e, !.errAttempt = r.attempt] IN
  IF r1.page # 0
  THEN SetReq(p, [r1 EXCEPT !.pc = "closeFailed"]) /\ UNCHANGED ctx
  ELSE EndAttempt(p, r1)

\* page.close() of the catch block settled: the session is gone, also when
\* close rejects (which .catch swallows)
CloseFailed(p) ==
  /\ req[p].pc = "closeFailed"
  /\ EndAttempt(p, [req[p] EXCEPT !.open = @ \ {req[p].page}])
  /\ UNCHANGED <<Globals, env>>

\* the backoff timer fires: attempt++
BackoffDone(p) ==
  /\ req[p].pc = "backoff"
  /\ SetReq(p, [req[p] EXCEPT !.pc = "newPage", !.attempt = @ + 1])
  /\ UNCHANGED <<Globals, ctx, env>>

----------------------------------------------------------------------------
(* fetchPageWithRetry: one attempt *)

\* a jar keyed by the host as the client wrote it
JarKeyRaw(u) == u.host

\* cookieJars is keyed by new URL(url).hostname
JarKey(u) == Hostname(u)

\* the url whose host saveCookies(page, url) files the cookies under:
\* fetchPageWithRetry passes the url it was called with
SaveUrl(r) == r.url

\* page = await browser.newPage(); then the header object is built, which
\* proxyHandler.js cannot do: getRandomUserAgent is not defined there
NewPageOk(p) ==
  /\ req[p].pc = "newPage"
  /\ LET r == req[p]
         r1 == [r EXCEPT !.page = r.attempt,
                         !.opened = @ \cup {r.attempt},
                         !.open = @ \cup {r.attempt},
                         !.inject = {}, !.challenge = FALSE, !.waited = 0,
                         !.timedOut = FALSE,
                         !.final = NoUrl, !.rtype = NoHeader]
     IN IF r.variant = "legacy"
        THEN FailAttempt(p, r1, RefError)
        ELSE SetReq(p, [r1 EXCEPT !.pc = "headers"]) /\ UNCHANGED ctx
  /\ UNCHANGED <<Globals, env>>

\* setExtraHTTPHeaders resolved; applyCookies(page, url) runs up to its await
HeadersOk(p) ==
  /\ req[p].pc = "headers"
  /\ LET cookies == MapGetOrEmpty(cookieJars, JarKey(req[p].url)) IN
     IF cookies # {}
     THEN SetReq(p, [req[p] EXCEPT !.pc = "addCookies", !.inject = cookies])
     ELSE SetReq(p, [req[p] EXCEPT !.pc = "goto"])
  /\ UNCHANGED <<Globals, ctx, env>>

\* page.context().addCookies(cookies) resolved; page.goto(url) is called
AddCookiesOk(p) ==
  /\ req[p].pc = "addCookies"
  /\ SetReq(p, [req[p] EXCEPT !.pc = "goto"])
  /\ UNCHANGED <<Globals, ctx, env>>

\* page.goto resolved: the renderer is at f
GotoOk(p, f) ==
  /\ req[p].pc = "goto"
  /\ f \in {Href(req[p].url)} \cup RedirectTargets
  /\ SetReq(p, [req[p] EXCEPT !.pc = "idle1", !.final = f])
  /\ UNCHANGED <<Globals, ctx, env>>

\* a wait whose timeout is thrown on into the catch block of the attempt
NetworkIdleFatal(p, timeout) ==
  /\ req[p].pc \in {"idle1", "idle2"}
  /\ timeout \in env.timeouts
  /\ IF timeout
     THEN FailAttempt(p, [req[p] EXCEPT !.timedOut = TRUE], "e1")
     ELSE /\ SetReq(p, [req[p] EXCEPT !.pc = IF @ = "idle1" THEN "content1" ELSE "cookies"])
          /\ UNCHANGED ctx
  /\ UNCHANGED <<Globals, env>>

\* waitForLoadState('networkidle').catch(...): a timeout is swallowed
NetworkIdle(p, timeout) ==
  /\ req[p].pc \in {"idle1", "idle2"}
  /\ timeout \in env.timeouts
  /\ SetReq(p, [req[p] EXCEPT !.pc = IF @ = "idle1" THEN "content1" ELSE "cookies",
                              !.timedOut = @ \/ timeout])
  /\ UNCHANGED <<Globals, ctx, env>>

\* a challenge check that never waits
ContentReadNoWait(p, marker) ==
  /\ req[p].pc = "content1"
  /\ SetReq(p, [req[p] EXCEPT !.challenge = marker, !.pc = "cookies"])
  /\ UNCHANGED <<Globals, ctx, env>>

\* content = await page.content(); the challenge markers are looked for;
\* without one saveCookies(page, url) runs up to its await
ContentRead(p, marker) ==
  /\ req[p].pc = "content1"
  /\ SetReq(p, [req[p] EXCEPT !.challenge = marker,
                              !.pc = IF marker THEN "cfDelay" ELSE "cookies"])
  /\ UNCHANGED <<Globals, ctx, env>>

\* page.waitForTimeout(5000) resolved
ChallengeWait(p) ==
  /\ req[p].pc = "cfDelay"
  /\ SetReq(p, [req[p] EXCEPT !.pc = "idle2", !.waited = @ + 1])
  /\ UNCHANGED <<Globals, ctx, env>>

\* a save that runs before the navigation
CookiesSavedEarly(p, cs) ==
  /\ req[p].pc \in {"goto", "cookies"}
  /\ cs \in env.cookies
  /\ cookieJars' = MapSet(cookieJars, JarKey(SaveUrl(req[p])), cs)
  /\ saved' = MapSet(saved, Hostname(req[p].url), [url |-> req[p].url, cookies |-> cs])
  /\ IF req[p].pc = "goto"
     THEN SetReq(p, req[p])
     ELSE SetReq(p, [req[p] EXCEPT !.pc = "idle3", !.fetch = "success"])
  /\ UNCHANGED <<browser, launches, assetCache, now, ctx, env>>

\* page.context().cookies() resolved with cs: cookieJars.set(domain, cookies);
\* fetchPageWithRetry returns page and handler awaits network idle
CookiesSaved(p, cs) ==
  /\ req[p].pc = "cookies"
  /\ cs \in env.cookies
  /\ cookieJars' = MapSet(cookieJars, JarKey(SaveUrl(req[p])), cs)
  /\ saved' = MapSet(saved, Hostname(req[p].url), [url |-> req[p].url, cookies |-> cs])
  /\ SetReq(p, [req[p] EXCEPT !.pc = "idle3", !.fetch = "success"])
  /\ UNCHANGED <<browser, launches, assetCache, now, ctx, env>>

AttemptPcs == {"newPage", "headers", "addCookies", "goto", "content1", "cfDelay", "cookies"}

\* an awaited renderer call inside the try block rejects
AttemptThrows(p, e) ==
  /\ req[p].pc \in AttemptPcs
  /\ Fault
  /\ FailAttempt(p, req[p], e)
  /\ UNCHANGED Globals

----------------------------------------------------------------------------
(* handler: after fetchPageWithRetry returned the page *)

\* which rewriter runs for a content type: "" is processedContent = content
RewriterFor(ct) ==
  IF IsHtml(ct) THEN "html"
  ELSE IF IsCss(ct) THEN "css"
  ELSE IF IsJs(ct) THEN "js"
  ELSE ""

----------------------------------------------------------------------------
(* Page content and the rewriters.  A content string is modelled by the    *)
(* sequence of its tags and references.  A token says where it stands      *)
(* (a tag; a double-quoted attribute value or string literal; the inside   *)
(* of an unquoted or of a quoted CSS url(...)), its form, the url it       *)
(* holds, and, once rewritten, the proxy path it was routed to.            *)

Tok(where, form, u, via) == [where |-> where, form |-> form, url |-> u, via |-> via]
Tag(form) == Tok("tag", form, NoUrl, "")
Ref(where, form, u) == Tok(where, form, u, "")

\* `${proxy}?url=${encodeURIComponent(u)}` in place of a reference
Proxied(where, u, via) == Tok(where, "proxied", u, via)
\* `<base href="${proxyBaseUrl}/?url=${encodeURIComponent(finalUrl)}">`
BaseTag(final) == Tok("tag", "baseInjected", final, "/")
\* the <script> that reroutes fetch and XMLHttpRequest
ProxyScript == Tok("tag", "proxyScript", NoUrl, "/")

\* data:image/png;base64,...
DataUrl == Url("data", "", "png")

\* <head>, <head lang="en">, </head>, <base href="...">,
\* "http://b/y", "/r" as serialised attribute values
HtmlTokens ==
  { Tag("head"), Tag("headAttr"), Tag("endHead"), Tag("base"),
    Ref("attr", "abs", Url("http", "b", "/y")),
    Ref("attr", "root", Url("", "", "/r")) }

\* url(data:...), url("data:..."), url( data:... ), url(/r), url("//b/y"),
\* url(i.png), url(x://[)
CssTokens ==
  { Ref("url", "data", DataUrl), Ref("urlq", "data", DataUrl),
    Ref("url", "sdata", DataUrl),
    Ref("url", "root", Url("", "", "/r")),
    Ref("urlq", "proto", Url("", "b", "/y")),
    Ref("url", "rel", Url("", "", "i.png")),
    Ref("url", "bad", Url("x", "[", "")) }

SeqsUpTo(S, n) == UNION { [1..k -> S] : k \in 0..n }

\* what page.content() may return: pages and stylesheets of at most n tokens
Contents(n) == SeqsUpTo(HtmlTokens, n) \cup SeqsUpTo(CssTokens, n)

\* the reference follows a quote character: (["'\s]) of the regular expressions
Quoted(tok) == tok.where \in {"attr", "urlq"}

\* `${parsedTarget.protocol}${url}` for a //host/path reference
WithProtocol(u, target) == Url(target.scheme, u.host, u.path)
\* `${targetOrigin}${url}` for a /path reference
WithOrigin(u, target) == Url(target.scheme, target.host, u.path)
\* new URL(url, baseDir).href for a reference that is none of the above: a
\* path is resolved in the directory of the target (the root directory for
\* every target of the model), a reference with a scheme stands for itself
Resolved(u, target) ==
  IF u.scheme # "" THEN u
  ELSE Url(target.scheme, target.host,
           CASE u.path = "i.png" -> "/i.png" [] OTHER -> u.path)

\* the three replace passes of rewriteUrlsInContent on one reference
rewriteHtmlRef(tok, target, via) ==
  IF ~Quoted(tok) THEN tok
  ELSE CASE tok.form = "abs" -> Proxied(tok.where, tok.url, via)
         [] tok.form = "proto" -> Proxied(tok.where, WithProtocol(tok.url, target), via)
         [] tok.form = "root" -> Proxied(tok.where, WithOrigin(tok.url, target), via)
         [] OTHER -> tok

rewriteUrlsInContent(content, target, via) ==
  [i \in 1..Len(content) |-> rewriteHtmlRef(content[i], target, via)]

\* the position of the first token of a form, 0 when there is none
FirstIndex(content, form) ==
  IF \E i \in 1..Len(content) : content[i].form = form
  THEN CHOOSE i \in 1..Len(content) :
         /\ content[i].form = form
         /\ \A j \in 1..(i - 1) : content[j].form # form
  ELSE 0

\* content with tok put in after position k
InsertAfter(content, k, tok) ==
  SubSeq(content, 1, k) \o <<tok>> \o SubSeq(content, k + 1, Len(content))

\* the html branch of handler: rewrite, inject the base tag after the first
\* literal '<head>' unless '<base' occurs, inject the script before '</head>'
rewriteHtmlPage(content, final) ==
  LET rewritten == rewriteUrlsInContent(content, final, "/")
      head == FirstIndex(rewritten, "head")
      based == IF \E i \in 1..Len(rewritten) : rewritten[i].form = "base"
               THEN rewritten
               ELSE IF head = 0 THEN rewritten
               ELSE InsertAfter(rewritten, head, BaseTag(final))
      endHead == FirstIndex(based, "endHead")
  IN IF endHead = 0 THEN based ELSE InsertAfter(based, endHead - 1, ProxyScript)

\* the replace callback of rewriteCssUrls throws: new URL(url, baseDir) fails
CssRefThrows(tok) == tok.where \in {"url", "urlq"} /\ tok.form = "bad"

\* the replace callback of rewriteCssUrls on one url(...) match
rewriteCssRef(tok, target, via) ==
  IF tok.where \notin {"url", "urlq"} THEN tok
  ELSE CASE tok.form = "data" -> tok
         [] tok.form = "abs" -> Proxied("urlq", tok.url, via)
         [] tok.form = "proto" -> Proxied("urlq", WithProtocol(tok.url, target), via)
         [] tok.form = "root" -> Proxied("urlq", WithOrigin(tok.url, target), via)
         [] OTHER -> Proxied("urlq", Resolved(tok.url, target), via)

rewriteCssThrows(content) == \E i \in 1..Len(content) : CssRefThrows(content[i])

rewriteCssUrls(content, target, via) ==
  [i \in 1..Len(content) |-> rewriteCssRef(content[i], target, via)]

\* the two replace passes of rewriteJsUrls on one reference
rewriteJsRef(tok, target, via) ==
  IF ~Quoted(tok) THEN tok
  ELSE CASE tok.form = "abs" -> Proxied(tok.where, tok.url, via)
         [] tok.form = "proto" -> Proxied(tok.where, WithProtocol(tok.url, target), via)
         [] OTHER -> tok

rewriteJsUrls(content, target, via) ==
  [i \in 1..Len(content) |-> rewriteJsRef(content[i], target, via)]

\* processedContent of handler
Processed(ct, content, final) ==
  IF IsHtml(ct) THEN rewriteHtmlPage(content, final)
  ELSE IF IsCss(ct) THEN rewriteCssUrls(content, final, "/asset")
  ELSE IF IsJs(ct) THEN rewriteJsUrls(content, final, "/asset")
  ELSE content

\* the rewriter handler calls throws
ProcessingThrows(ct, content) == ~IsHtml(ct) /\ IsCss(ct) /\ rewriteCssThrows(content)

\* the text branch up to await page.content()
TextBranch(r, ct) == [r EXCEPT !.contentType = ct, !.pc = "content2"]

\* the handler's own network-idle wait settled (a timeout is swallowed), then
\* page.mainFrame().url() === targetUrl ? await page.mainFrame().response() : null
\* ct is the content-type header the resource at page.url() was served with:
\* nothing reads it before this point, so it is drawn here
HandlerIdle(p, timeout, ct) ==
  /\ req[p].pc = "idle3"
  /\ timeout \in BOOLEAN
  /\ ct \in env.types
  /\ LET r == [req[p] EXCEPT !.rtype = ct] IN
     IF r.final = r.url
     THEN SetReq(p, [r EXCEPT !.pc = "response"])
     ELSE SetReq(p, TextBranch(r, "text/html"))
  /\ UNCHANGED <<Globals, ctx, env>>

\* ctx.redirect(`${proxyBaseUrl}/asset?url=${encodeURIComponent(finalUrl)}`)
Redirect(c, final) ==
  [c EXCEPT !.status = 302, !.location = <<"/asset?url=", final>>,
            !.body = Body("redirect", "", <<>>, final)]

\* the response arrived: contentType = headers['content-type'] || 'text/html'
ResponseRead(p) ==
  /\ req[p].pc = "response"
  /\ LET ct == HeaderOrDefault(req[p].rtype) IN
     IF IsBinary(ct)
     THEN /\ SetCtx(p, Redirect(ctx[p], req[p].final))
          /\ SetReq(p, [req[p] EXCEPT !.contentType = ct, !.pc = "closeRedirect"])
     ELSE /\ SetReq(p, TextBranch(req[p], ct))
          /\ UNCHANGED ctx
  /\ UNCHANGED <<Globals, env>>

\* ctx.body = <string>: status 200; Koa guesses the type when none was set
StringBody(c, by, content, final) ==
  [c EXCEPT !.status = 200,
            !.type = IF @ = NoHeader THEN "guessed" ELSE @,
            !.body = Body("content", by, content, final)]

\* part_000: ctx.type = contentType; ctx.body = processedContent
SendFull(c, r) == StringBody([c EXCEPT !.type = r.contentType],
                             RewriterFor(r.contentType),
                             Processed(r.contentType, r.content, r.final), r.final)

\* proxyHandler.js: ctx.body = content; ctx.status = 200
SendLegacy(c, r) == StringBody(c, "", r.content, r.final)

\* content = await page.content() resolved and the rewriter ran; when a
\* url(...) of a stylesheet makes new URL throw, the catch block answers 500
ContentRewritten(p, content) ==
  /\ req[p].pc = "content2"
  /\ content \in Contents(env.maxContent)
  /\ LET r == [req[p] EXCEPT !.content = content] IN
     IF ProcessingThrows(r.contentType, content)
     THEN /\ SetReq(p, [r EXCEPT !.pc = "done"])
          /\ SetCtx(p, Error500(p, Plain("Invalid URL")))
     ELSE /\ SetReq(p, [r EXCEPT !.pc = "closeFinal"])
          /\ IF r.variant = "full"
             THEN SetCtx(p, SendFull(ctx[p], r))
             ELSE UNCHANGED ctx
  /\ UNCHANGED <<Globals, env>>

\* await page.close() on the 200 and on the 302 path resolved
PageClosed(p) ==
  /\ req[p].pc \in {"closeFinal", "closeRedirect"}
  /\ SetReq(p, [req[p] EXCEPT !.pc = "done", !.open = @ \ {req[p].page}])
  /\ IF req[p].pc = "closeFinal" /\ req[p].variant = "legacy"
     THEN SetCtx(p, SendLegacy(ctx[p], req[p]))
     ELSE UNCHANGED ctx
  /\ UNCHANGED <<Globals, env>>

\* page.close() is taken to succeed
HandlerPcs == {"response", "content2"}

\* an awaited call of handler's try block rejects: catch answers 500
HandlerThrows(p, e) ==
  /\ req[p].pc \in HandlerPcs
  /\ Fault
  /\ SetReq(p, [req[p] EXCEPT !.pc = "done"])
  /\ SetCtx(p, Error500(p, Plain(e)))
  /\ UNCHANGED Globals

----------------------------------------------------------------------------
(* handleAsset *)

Payloads == {"d1", "d2"}
AssetTypes == {"image/png", NoHeader}

\* { data, contentType, timestamp }, and as history the time at which
\* axios.get resolved with the data
Entry(data, ct, ts, at) ==
  [data |-> data, contentType |-> ct, timestamp |-> ts, fetchedAt |-> at]

\* a window that includes its end
FreshInclusive(t, entry) == t - entry.timestamp <= CACHE_TTL

\* the comparison the wrong way round
FreshReversed(t, entry) == t - entry.timestamp > CACHE_TTL

\* now - cachedAsset.timestamp < CACHE_TTL
Fresh(t, entry) == t - entry.timestamp < CACHE_TTL

\* ctx.type = <type>: an undefined type removes the header
SetType(c, ct) == [c EXCEPT !.type = ct]

\* ctx.body = <Buffer>: status 200; application/octet-stream when no type is set
BufferBody(c, data) ==
  [c EXCEPT !.status = 200,
            !.type = IF @ = NoHeader THEN "application/octet-stream" ELSE @,
            !.body = Body("bytes", "", <<data>>, NoUrl)]

\* a hit that renews the capture timestamp of the entry it serves
StartAssetTouching(p, u) ==
  /\ p \in env.active
  /\ u \in env.urls
  /\ req[p].pc \in {"idle", "done"}
  /\ env.reqs > 0
  /\ env' = [env EXCEPT !.reqs = @ - 1, !.last = p]
  /\ LET r == [IdleReq EXCEPT !.kind = "asset", !.url = u, !.t = now,
                             !.age = IF validateUrl(u) /\ u \in DOMAIN assetCache
                                     THEN now - assetCache[u].timestamp ELSE -1]
     IN
     IF Falsy(u) \/ ~validateUrl(u) THEN
       /\ SetReq(p, [r EXCEPT !.pc = "done"])
       /\ SetCtx(p, JsonError(FreshCtx, 400, "invalidAssetUrl", <<>>, NoUrl))
       /\ UNCHANGED assetCache
     ELSE IF u \in DOMAIN assetCache /\ Fresh(now, assetCache[u]) THEN
       /\ SetReq(p, [r EXCEPT !.pc = "done", !.hit = TRUE])
       /\ SetCtx(p, BufferBody(SetType(FreshCtx, assetCache[u].contentType),
                               assetCache[u].data))
       /\ assetCache' = [assetCache EXCEPT ![u].timestamp = now]
     ELSE
       /\ assetCache' = MapDelete(assetCache, u)
       /\ SetReq(p, [r EXCEPT !.pc = "axios", !.upstream = @ + 1,
                               !.evicted = u \in DOMAIN assetCache])
       /\ SetCtx(p, FreshCtx)
  /\ UNCHANGED <<browser, launches, cookieJars, now, saved>>

\* from the entry of handleAsset to its return (invalid url, cache hit) or to
\* await axios.get(...)
StartAsset(p, u) ==
  /\ p \in env.active
  /\ u \in env.urls
  /\ req[p].pc \in {"idle", "done"}
  /\ env.reqs > 0
  /\ env' = [env EXCEPT !.reqs = @ - 1, !.last = p]
  /\ LET r == [IdleReq EXCEPT !.kind = "asset", !.url = u, !.t = now,
                             !.age = IF validateUrl(u) /\ u \in DOMAIN assetCache
                                     THEN now - assetCache[u].timestamp ELSE -1]
     IN
     IF Falsy(u) \/ ~validateUrl(u) THEN
       /\ SetReq(p, [r EXCEPT !.pc = "done"])
       /\ SetCtx(p, JsonError(FreshCtx, 400, "invalidAssetUrl", <<>>, NoUrl))
       /\ UNCHANGED assetCache
     ELSE IF u \in DOMAIN assetCache /\ Fresh(now, assetCache[u]) THEN
       /\ SetReq(p, [r EXCEPT !.pc = "done", !.hit = TRUE])
       /\ SetCtx(p, BufferBody(SetType(FreshCtx, assetCache[u].contentType),
                               assetCache[u].data))
       /\ UNCHANGED assetCache
     ELSE
       /\ assetCache' = MapDelete(assetCache, u)
       /\ SetReq(p, [r EXCEPT !.pc = "axios", !.upstream = @ + 1,
                               !.evicted = u \in DOMAIN assetCache])
       /\ SetCtx(p, FreshCtx)
  /\ UNCHANGED <<browser, launches, cookieJars, now, saved>>

\* an entry stamped with the time at which it will expire
AssetFetchedExpiryStamp(p, data, ct) ==
  /\ req[p].pc = "axios"
  /\ assetCache' = MapSet(assetCache, req[p].url, Entry(data, ct, now + CACHE_TTL, now))
  /\ SetReq(p, [req[p] EXCEPT !.pc = "done"])
  /\ SetCtx(p, BufferBody(IF ct # NoHeader THEN SetType(ctx[p], ct) ELSE ctx[p], data))
  /\ UNCHANGED <<browser, launches, cookieJars, now, saved, env>>

\* axios.get resolved: the asset is cached under the timestamp read at entry
AssetFetched(p, data, ct) ==
  /\ req[p].pc = "axios"
  /\ assetCache' = MapSet(assetCache, req[p].url, Entry(data, ct, req[p].t, now))
  /\ SetReq(p, [req[p] EXCEPT !.pc = "done"])
  /\ SetCtx(p, BufferBody(IF ct # NoHeader THEN SetType(ctx[p], ct) ELSE ctx[p], data))
  /\ UNCHANGED <<browser, launches, cookieJars, now, saved, env>>

\* a catch block that asks upstream once more before it gives up
AssetFailedRetry(p, e) ==
  /\ req[p].pc = "axios"
  /\ Fault
  /\ IF req[p].upstream < 2
     THEN SetReq(p, [req[p] EXCEPT !.upstream = @ + 1]) /\ UNCHANGED ctx
     ELSE /\ SetReq(p, [req[p] EXCEPT !.pc = "done"])
          /\ SetCtx(p, JsonError(ctx[p], 502, "assetFetchFailed", Plain(e), NoUrl))
  /\ UNCHANGED Globals

\* axios.get rejected: 502
AssetFailed(p, e) ==
  /\ req[p].pc = "axios"
  /\ Fault
  /\ SetReq(p, [req[p] EXCEPT !.pc = "done"])
  /\ SetCtx(p, JsonError(ctx[p], 502, "assetFetchFailed", Plain(e), NoUrl))
  /\ UNCHANGED Globals

\* time passes
TickStep == CACHE_TTL \div 2
Tick ==
  /\ env.ticks > 0
  /\ env' = [env EXCEPT !.ticks = @ - 1]
  /\ now' = now + TickStep
  /\ UNCHANGED <<browser, launches, cookieJars, assetCache, saved, req, ctx>>

----------------------------------------------------------------------------
(* Specifications *)

\* everything clients may send and sites may answer
World ==
  [urls |-> RawUrls, methods |-> Methods, variants |-> Variants,
   types |-> ContentTypes, cookies |-> CookieSets, timeouts |-> {FALSE},
   maxContent |-> 0]

\* GET requests for two sites, served by the complete handler
SmallWorld ==
  [urls |-> {Url("https", "a", "/x"), Url("http", "b", "/x")},
   methods |-> {"GET"}, variants |-> {"full"},
   types |-> {"text/html", "image/png"},
   cookies |-> {{"c1"}, {"c1", "c2"}}, timeouts |-> {FALSE},
   maxContent |-> 0]

\* GET requests for two sites that answer with HTML and set cookies
SharedWorld ==
  [urls |-> {Url("https", "a", "/x"), Url("http", "b", "/x")},
   methods |-> {"GET"}, variants |-> {"full"},
   types |-> {"text/html"},
   cookies |-> {{"c1"}, {"c1", "c2"}}, timeouts |-> {FALSE},
   maxContent |-> 0]

\* GET requests for one site whose network may never become idle
IdleWorld ==
  [urls |-> {Url("https", "a", "/x")},
   methods |-> {"GET"}, variants |-> {"full"},
   types |-> {"text/html", "text/css"},
   cookies |-> {{"c1"}}, timeouts |-> BOOLEAN,
   maxContent |-> 0]

\* GET requests for one site that answers with pages and stylesheets of
\* every content
RewriteWorld ==
  [urls |-> {Url("https", "a", "/x")},
   methods |-> {"GET"}, variants |-> {"full"},
   types |-> {"text/html", "text/css", "application/javascript", "text/plain"},
   cookies |-> {{"c1"}}, timeouts |-> {FALSE},
   maxContent |-> MaxContent]

\* GET requests for one asset url
RaceWorld ==
  [urls |-> {Url("https", "a", "/x")},
   methods |-> {"GET"}, variants |-> {"full"},
   types |-> {"text/html"},
   cookies |-> {{"c1"}}, timeouts |-> {FALSE},
   maxContent |-> 0]

InitWith(world, active, reqs, faults, ticks) ==
  /\ browser = 0
  /\ launches = 0
  /\ cookieJars = EmptyMap
  /\ assetCache = EmptyMap
  /\ now = 0
  /\ saved = EmptyMap
  /\ req = [p \in Procs |-> IdleReq]
  /\ ctx = [p \in Procs |-> FreshCtx]
  /\ env = [urls |-> world.urls, methods |-> world.methods,
            variants |-> world.variants, types |-> world.types,
            cookies |-> world.cookies, timeouts |-> world.timeouts,
            maxContent |-> world.maxContent,
            active |-> active, reqs |-> reqs, faults |-> faults, ticks |-> ticks,
            last |-> 0]

\* the steps of a page request on the way to its answer
PageFlow(p) ==
  \/ LaunchOk(p)
  \/ NewPageOk(p)
  \/ HeadersOk(p)
  \/ AddCookiesOk(p)
  \/ \E f \in RedirectTargets \cup {Href(req[p].url)} : GotoOk(p, f)
  \/ \E timeout \in BOOLEAN : NetworkIdle(p, timeout)
  \/ \E marker \in BOOLEAN : ContentRead(p, marker)
  \/ ChallengeWait(p)
  \/ \E cs \in CookieSets : CookiesSaved(p, cs)
  \/ \E timeout \in BOOLEAN, ct \in ContentTypes : HandlerIdle(p, timeout, ct)
  \/ ResponseRead(p)
  \/ /\ req[p].pc = "content2"
     /\ \E content \in Contents(env.maxContent) : ContentRewritten(p, content)
  \/ PageClosed(p)

\* the steps after a failed attempt
PageRetry(p) ==
  \/ CloseFailed(p)
  \/ BackoffDone(p)

\* the steps in which the renderer makes a call fail
PageFault(p) ==
  \/ \E e \in Errors : LaunchFail(p, e)
  \/ \E e \in Errors : AttemptThrows(p, e)
  \/ \E e \in Errors : HandlerThrows(p, e)

NewPage == \E p \in Procs, m \in Methods, u \in RawUrls, v \in Variants : StartPage(p, m, u, v)
NewAsset == \E p \in Procs, u \in RawUrls : StartAsset(p, u)
AssetOk == \E p \in Procs, data \in Payloads, ct \in AssetTypes : AssetFetched(p, data, ct)
AssetFault == \E p \in Procs, e \in Errors : AssetFailed(p, e)

\* page requests, one after the other, against a renderer that may fail
Init == InitWith(World, {1}, MaxRequests, MaxFaults, 0)
Next ==
  \/ NewPage
  \/ \E p \in Procs : PageFlow(p)
  \/ \E p \in Procs : PageRetry(p)
  \/ \E p \in Procs : PageFault(p)
Spec == Init /\ [][Next]_vars

\* asset requests, one after the other, while time passes
InitAsset == InitWith(World, {1}, MaxAssetRequests, MaxAssetFaults, MaxTicks)
NextAsset ==
  \/ NewAsset
  \/ AssetOk
  \/ AssetFault
  \/ Tick
SpecAsset == InitAsset /\ [][NextAsset]_vars

\* page and asset requests, one after the other, nothing failing
InitBoundary == InitWith(World, {1}, MaxRequests, 0, 0)
NextBoundary ==
  \/ NewPage
  \/ NewAsset
  \/ \E p \in Procs : PageFlow(p)
  \/ \E p \in Procs : PageRetry(p)
  \/ AssetOk
SpecBoundary == InitBoundary /\ [][NextBoundary]_vars

\* two page requests at the same time, nothing failing
InitConc == InitWith(SmallWorld, Procs, Cardinality(Procs), 0, 0)
NextConc ==
  \/ NewPage
  \/ \E p \in Procs : PageFlow(p)
SpecConc == InitConc /\ [][NextConc]_vars

\* page requests, one after the other, against a renderer that may fail and a
\* network that may not become idle before the timeouts
InitIdle == InitWith(IdleWorld, {1}, MaxRequests, MaxFaults, 0)
SpecIdle == InitIdle /\ [][Next]_vars

\* the same, where every awaited renderer call settles (it resolves, or it
\* rejects while the renderer still fails) and every backoff timer fires
Settles == \A p \in Procs : WF_vars(PageFlow(p) \/ PageRetry(p))
SpecLive == InitIdle /\ [][Next]_vars /\ Settles

\* one page or asset request per handler slot, all at the same time, sharing
\* the jar and the cache while time passes
InitShared == InitWith(SharedWorld, Procs, Cardinality(Procs), 0, MaxTicks)
NextShared ==
  \/ NewPage
  \/ NewAsset
  \/ \E p \in Procs : PageFlow(p)
  \/ AssetOk
  \/ Tick
SpecShared == InitShared /\ [][NextShared]_vars

\* asset requests of two clients at once for one url while time passes, no
\* upstream failure: lookups and downloads of the url overlap
InitRace == InitWith(RaceWorld, Procs, MaxAssetRequests, 0, MaxTicks)
NextRace ==
  \/ NewAsset
  \/ AssetOk
  \/ Tick
SpecRace == InitRace /\ [][NextRace]_vars

\* page requests, one after the other, for pages and stylesheets of every
\* content, nothing failing in the renderer
InitRewrite == InitWith(RewriteWorld, {1}, MaxRequests, 0, 0)
SpecRewrite == InitRewrite /\ [][NextConc]_vars

----------------------------------------------------------------------------
(* Properties *)

PageReq(p) == req[p].kind = "page"
AssetReq(p) == req[p].kind = "asset"
\* the request of slot p has been answered
Answered(p) == req[p].pc = "done"
\* the pcs of handler after fetchPageWithRetry returned
AfterFetchPcs == {"idle3", "response", "content2", "closeFinal", "closeRedirect", "done"}
\* the pcs inside fetchPageWithRetry
FetchPcs == {"launch", "idle1", "idle2", "closeFailed", "backoff"} \cup AttemptPcs
\* a step in which slot p takes a new request
Starts(p) == p \in env.active /\ env'.reqs < env.reqs /\ env'.last = p

C2_Exhausted ==
  \A p \in Procs : PageReq(p) =>
    /\ req[p].fetch = "exhausted" =>
         /\ Answered(p)
         /\ req[p].attempt = MaxRetries
         /\ req[p].errAttempt = MaxRetries
         /\ ctx[p].status = 500
         /\ ctx[p].type = "application/json"
         /\ ctx[p].body.kind = "error500"
         /\ ctx[p].body.details = Wrapped(MaxRetries, req[p].lastError)
         /\ req[p].lastError # NoError
    /\ (req[p].fetch = "none" /\ req[p].pc \in AttemptPcs \cup {"closeFailed", "backoff"}) =>
         ctx[p].status # 500

\* the complete handler gave up after three renderer failures, the last being e2
C2_Witness ==
  \E p \in Procs :
    /\ PageReq(p) /\ req[p].variant = "full" /\ req[p].fetch = "exhausted"
    /\ req[p].lastError = "e2"
    /\ ctx[p].body.details = Wrapped(3, "e2")

\* what the claim calls an invalid url parameter: missing, unparsable, or of
\* a scheme other than http/https
BadUrl(u) == u = NoUrl \/ u = Garbage \/ u.scheme = "ftp"

\* C3: a page request that is not a GET is answered 405, a page or asset
\* request whose url is missing, unparsable or not http/https is answered 400,
\* in the step that takes the request: no renderer is started, no session is
\* opened, no upstream request is made, and the browser, the cookie jar and
\* the asset cache are as before.
C3_Boundary ==
  [][\A p \in Procs :
       (Starts(p) /\ (BadUrl(req'[p].url) \/ (PageReq(p)' /\ req'[p].method # "GET"))) =>
         /\ Answered(p)'
         /\ ctx'[p].status =
              IF PageReq(p)' /\ req'[p].method # "GET" THEN 405 ELSE 400
         /\ ctx'[p].type = "application/json"
         /\ req'[p].br = 0 /\ req'[p].attempt = 0 /\ req'[p].opened = {}
         /\ req'[p].fetch = "none" /\ req'[p].upstream = 0
         /\ UNCHANGED <<browser, launches, cookieJars, assetCache>>]_vars

\* an ftp url was refused while the jar held cookies
C3_Witness ==
  \E p \in Procs :
    /\ PageReq(p) /\ Answered(p) /\ req[p].url = Url("ftp", "a", "/x")
    /\ req[p].method = "GET" /\ ctx[p].status = 400
    /\ \E h \in DOMAIN cookieJars : cookieJars[h] # {}

\* C4 (as claimed): the step in which a fetch succeeds writes the jar entry of
\* the host of the final url of the session, and no other entry.
C4_SavedUnderFinalHost ==
  [][\A p \in Procs :
       (req[p].fetch # "success" /\ req'[p].fetch = "success") =>
         /\ Hostname(req'[p].final) \in DOMAIN cookieJars'
         /\ \A h \in DOMAIN cookieJars' \ {Hostname(req'[p].final)} :
              h \in DOMAIN cookieJars /\ cookieJars'[h] = cookieJars[h]]_vars

\* C5: when applyCookies runs for a url, it injects exactly the cookie set of
\* the last saveCookies for a url of the same hostname; when there was no such
\* save, or it saved no cookie, nothing is injected; the jar is not changed.
C5_RoundTrip ==
  [][\A p \in Procs :
       (req[p].pc = "headers" /\ req'[p].pc \in {"addCookies", "goto"}) =>
         LET h == Hostname(req[p].url)
             last == IF h \in DOMAIN saved THEN saved[h].cookies ELSE {}
         IN /\ req'[p].inject = last
            /\ req'[p].pc = "addCookies" <=> last # {}
            /\ cookieJars' = cookieJars]_vars

\* cookies saved for one url are being injected for another url of the host
C5_Witness ==
  \E p \in Procs :
    /\ PageReq(p) /\ req[p].pc = "addCookies"
    /\ req[p].inject = {"c1", "c2"}
    /\ saved[Hostname(req[p].url)].url # req[p].url

\* Koa's answer type for a stored content type
ServedType(ct) == IF ct = NoHeader THEN "application/octet-stream" ELSE ct

\* C6: a lookup for a cached url less than the TTL after the entry's capture
\* answers the stored payload with the stored content type; a lookup more
\* than the TTL after it is a miss that removes the entry and goes upstream;
\* and when that upstream request fails the url has no entry.
C6_Cache ==
  [][\A p \in Procs :
       /\ (Starts(p) /\ AssetReq(p)' /\ req'[p].url \in DOMAIN assetCache) =>
            LET u == req'[p].url
                entry == assetCache[u]
            IN /\ now - entry.timestamp < CACHE_TTL =>
                    /\ Answered(p)' /\ req'[p].upstream = 0
                    /\ ctx'[p].status = 200
                    /\ ctx'[p].body.kind = "bytes"
                    /\ ctx'[p].body.details = <<entry.data>>
                    /\ ctx'[p].type = ServedType(entry.contentType)
                    /\ u \in DOMAIN assetCache' /\ assetCache'[u] = entry
               /\ now - entry.timestamp > CACHE_TTL =>
                    /\ u \notin DOMAIN assetCache'
                    /\ req'[p].pc = "axios" /\ req'[p].upstream = 1
       /\ (AssetReq(p) /\ req[p].pc = "axios" /\ ctx'[p].status = 502) =>
            req[p].url \notin DOMAIN assetCache']_vars

\* a lookup removed an expired entry and its refetch failed
C6_Witness ==
  \E p \in Procs :
    /\ AssetReq(p) /\ Answered(p) /\ req[p].evicted
    /\ ctx[p].status = 502
    /\ req[p].url \notin DOMAIN assetCache

\* C7 (as claimed): when a page request has been answered, none of the
\* sessions opened for it is open.
C7_NoSessionLeft ==
  \A p \in Procs : (PageReq(p) /\ Answered(p)) => req[p].open = {}

\* C8 (as claimed): the browser is launched at most once, and every request
\* that has a browser has the shared one.
C8_SingleLaunch ==
  /\ launches <= 1
  /\ \A p \in Procs : (PageReq(p) /\ req[p].br # 0) => req[p].br = browser

\* C9 (as claimed): a page request that reached a resource of a binary media
\* type and was answered without an error is answered by the redirect to the
\* asset endpoint for the final url, never by a body.
C9_BinaryRedirected ==
  \A p \in Procs :
    (PageReq(p) /\ Answered(p) /\ req[p].fetch = "success" /\ ctx[p].status # 500
       /\ req[p].rtype \in {"image/png", "application/pdf"}) =>
      /\ ctx[p].status = 302
      /\ ctx[p].location = <<"/asset?url=", req[p].final>>
      /\ ctx[p].body.kind # "content"

\* the rewriter the claim assigns to a content type
ClaimedRewriter(ct) ==
  CASE ct = "text/html" -> "html"
    [] ct = "text/css" -> "css"
    [] ct = "application/javascript" -> "js"
    [] OTHER -> ""

\* C10 (as claimed): a page request that reached a resource of a non-binary
\* content type and was answered 200 has the body the rewriter of that
\* content type produced, and that content type.
C10_RewrittenByType ==
  \A p \in Procs :
    LET ct == IF req[p].rtype = NoHeader THEN "text/html" ELSE req[p].rtype IN
    (PageReq(p) /\ Answered(p) /\ ctx[p].status = 200
       /\ ct \notin {"image/png", "application/pdf"}) =>
      /\ ctx[p].body.kind = "content"
      /\ ctx[p].body.by = ClaimedRewriter(ct)
      /\ ctx[p].type = ct

\* C11: when the upstream download of an asset fails, the request is answered
\* 502 with a JSON error in that step, it has made exactly one upstream
\* request, and the step leaves the asset cache as it was: nothing is stored
\* for the url and the entries of other urls are unchanged.  No asset request
\* ever makes more than one upstream request.
C11_UpstreamFailure ==
  [][\A p \in Procs :
       /\ (AssetReq(p) /\ req[p].pc = "axios" /\ req'[p].pc = "done"
             /\ ctx'[p].status # 200) =>
            /\ ctx'[p].status = 502
            /\ ctx'[p].type = "application/json"
            /\ ctx'[p].body.kind = "assetFetchFailed"
            /\ ctx'[p].body.details \in {Plain(e) : e \in Errors}
            /\ req'[p].upstream = 1
            /\ assetCache' = assetCache
            /\ req[p].url \notin DOMAIN assetCache'
       /\ (AssetReq(p) /\ req[p].pc = "axios" /\ req'[p].kind = "asset"
             /\ req'[p].url = req[p].url /\ req'[p].t = req[p].t) =>
            (req'[p].upstream = 1 /\ req'[p].pc \in {"axios", "done"})]_vars

\* a download failed while the cache held an entry for another url
C11_Witness ==
  \E p \in Procs :
    /\ AssetReq(p) /\ Answered(p) /\ ctx[p].status = 502
    /\ req[p].upstream = 1
    /\ \E v \in DOMAIN assetCache : v # req[p].url

\* C16: the waits a fetch has started are, in order, 1000 ms after failed
\* attempt 1 and 2000 ms after failed attempt 2 (1000 * 2^(k-1) after failed
\* attempt k).  While attempt k runs, and when it returns its session, k - 1
\* waits have been started: none before attempt 1 and none after the
\* successful attempt.  A wait in progress follows a failed attempt
\* k < maxRetries, and the fetch that failed maxRetries times has waited
\* maxRetries - 1 times: none after its last attempt.
C16_BackoffSchedule ==
  \A p \in Procs : PageReq(p) =>
    /\ \A k \in 1..Len(req[p].slept) : req[p].slept[k] = 1000 * 2 ^ (k - 1)
    /\ req[p].pc = "launch" => req[p].slept = <<>>
    /\ req[p].pc \in AttemptPcs \cup {"idle1", "idle2", "closeFailed"} =>
         Len(req[p].slept) = req[p].attempt - 1
    /\ req[p].pc = "backoff" =>
         /\ Len(req[p].slept) = req[p].attempt
         /\ req[p].attempt < MaxRetries
         /\ req[p].errAttempt = req[p].attempt
    /\ req[p].fetch = "success" => Len(req[p].slept) = req[p].attempt - 1
    /\ req[p].fetch = "exhausted" => Len(req[p].slept) = MaxRetries - 1
    /\ req[p].fetch = "launchFailed" => req[p].slept = <<>>

\* the wait after the second failed attempt is in progress
C16_Witness ==
  \E p \in Procs :
    /\ PageReq(p) /\ req[p].pc = "backoff" /\ req[p].attempt = 2
    /\ req[p].slept = <<1000, 2000>>

\* C17 (as claimed): at most one session of a fetch is open at any time, none
\* is open when an attempt is about to open its own, and the session the
\* failure path closes is the one the failing attempt opened, never one of an
\* earlier attempt.
C17_OwnSessionOnly ==
  \A p \in Procs : PageReq(p) =>
    /\ Cardinality(req[p].open) <= 1
    /\ req[p].pc = "newPage" => req[p].open = {}
    /\ req[p].pc = "closeFailed" =>
         /\ req[p].page = req[p].attempt
         /\ req[p].page \in req[p].open

\* the position of a request in the step order of an attempt
StepRank(pc) ==
  CASE pc = "newPage" -> 0
    [] pc = "headers" -> 1
    [] pc = "addCookies" -> 2
    [] pc = "goto" -> 3
    [] pc = "idle1" -> 4
    [] pc = "content1" -> 5
    [] pc = "cfDelay" -> 6
    [] pc = "idle2" -> 7
    [] pc = "cookies" -> 8
    [] OTHER -> 9

\* C18: within an attempt the steps go forward in the order session opened,
\* headers applied, stored cookies applied, navigation, challenge check,
\* cookies saved; the navigation of every attempt (retries included) starts
\* right after the cookies stored for the host were looked up and, when there
\* are any, injected; the cookie jar is written only by the step that ends a
\* successful attempt, after its navigation and its challenge check; and a
\* step in which an attempt fails leaves the cookie jar unchanged.
C18_StepOrder ==
  [][\A p \in Procs : PageReq(p) =>
       /\ (req[p].pc \in AttemptPcs \cup {"idle1", "idle2"}
             /\ req'[p].pc \in AttemptPcs \cup {"idle1", "idle2"}
             /\ req'[p].attempt = req[p].attempt /\ req'[p].kind = "page") =>
            StepRank(req'[p].pc) >= StepRank(req[p].pc)
       /\ (req[p].pc # "goto" /\ req'[p].pc = "goto") =>
            /\ req[p].pc \in {"headers", "addCookies"}
            /\ req'[p].inject = MapGetOrEmpty(cookieJars, Hostname(req[p].url))
            /\ req[p].pc = "headers" => req'[p].inject = {}
       /\ (req[p].pc = "goto" /\ req'[p].pc # "goto") =>
            \/ req'[p].pc = "idle1" /\ req'[p].final # NoUrl
            \/ req'[p].errAttempt = req[p].attempt /\ cookieJars' = cookieJars
       /\ (req[p].fetch # "success" /\ req'[p].fetch = "success") =>
            /\ req[p].pc = "cookies"
            /\ req[p].final # NoUrl
            /\ req[p].waited = (IF req[p].challenge THEN 1 ELSE 0)
       /\ (req'[p].pc \in {"closeFailed", "backoff"} \/ req'[p].fetch = "exhausted") =>
            cookieJars' = cookieJars]_vars
     /\ [][cookieJars' # cookieJars =>
             \E p \in Procs :
               /\ PageReq(p) /\ req[p].pc = "cookies" /\ req[p].final # NoUrl
               /\ req'[p].fetch = "success"]_vars

\* a retry replays the cookies an earlier request saved for the host
C18_Witness ==
  \E p \in Procs :
    /\ PageReq(p) /\ req[p].pc = "goto" /\ req[p].attempt = 2
    /\ req[p].inject = {"c1"}

\* C19: an attempt waits for a challenge at most once; the 5 s delay is
\* pending only when the content read after load held a marker, the
\* network-idle wait that follows it is pending only after that delay, and an
\* attempt that reaches the cookie save has waited exactly when its content
\* held a marker.  After the wait the content is not read again: the next
\* step of the attempt is the cookie save, which makes the fetch succeed.
C19_ChallengeWaitOnce ==
  /\ [](\A p \in Procs : PageReq(p) =>
          /\ req[p].waited <= 1
          /\ req[p].pc = "cfDelay" => req[p].challenge /\ req[p].waited = 0
          /\ req[p].pc = "idle2" => req[p].challenge /\ req[p].waited = 1
          /\ (req[p].pc = "cookies" \/ req[p].fetch = "success") =>
               req[p].waited = (IF req[p].challenge THEN 1 ELSE 0))
  /\ [][\A p \in Procs :
          /\ (PageReq(p) /\ req[p].pc = "idle2" /\ req'[p] # req[p]) =>
               req'[p].pc = "cookies" /\ req'[p].challenge /\ req'[p].waited = 1
          /\ (PageReq(p) /\ req[p].pc = "cookies" /\ req[p].challenge
                /\ req'[p].pc = "idle3") =>
               req'[p].fetch = "success" /\ req'[p].waited = 1]_vars

\* a page that showed a challenge was waited for once and answered
C19_Witness ==
  \E p \in Procs :
    /\ PageReq(p) /\ Answered(p) /\ req[p].fetch = "success"
    /\ req[p].challenge /\ req[p].waited = 1 /\ ctx[p].status = 200

\* C20: the step that ends a network-idle wait of fetchPageWithRetry, by
\* idleness or by timeout, continues the attempt (with the challenge check
\* after the first wait, with the cookie save after the second): it leaves
\* the attempt number, the recorded error, the waits started and the open
\* session as they were.  An error is recorded for an attempt only by a step
\* taken at session opening, header or cookie application, navigation,
\* content read, challenge delay or cookie save.  A fetch that returned its
\* session after a timed-out wait has made one attempt more than it had
\* failures.
C20_IdleTimeoutNonFatal ==
  /\ [][\A p \in Procs : (PageReq(p) /\ req'[p] # req[p] /\ ~Starts(p)) =>
          /\ req[p].pc \in {"idle1", "idle2"} =>
               /\ req'[p].pc = (IF req[p].pc = "idle1" THEN "content1" ELSE "cookies")
               /\ req'[p].attempt = req[p].attempt
               /\ req'[p].lastError = req[p].lastError
               /\ req'[p].errAttempt = req[p].errAttempt
               /\ req'[p].slept = req[p].slept
               /\ req'[p].open = req[p].open
               /\ req'[p].fetch = "none"
               /\ ctx'[p] = ctx[p]
          /\ req'[p].errAttempt # req[p].errAttempt => req[p].pc \in AttemptPcs]_vars
  /\ [](\A p \in Procs :
          (PageReq(p) /\ req[p].timedOut /\ req[p].fetch = "success") =>
             /\ Len(req[p].slept) = req[p].attempt - 1
             /\ req[p].errAttempt = req[p].attempt - 1)

\* the second attempt returned its session although a wait in it timed out
C20_Witness ==
  \E p \in Procs :
    /\ PageReq(p) /\ req[p].fetch = "success" /\ req[p].timedOut
    /\ req[p].attempt = 2 /\ req[p].errAttempt = 1

\* the keys whose entry differs between two maps
ChangedKeys(m, n) ==
  { k \in DOMAIN m \cup DOMAIN n :
      \/ k \notin DOMAIN m
      \/ k \notin DOMAIN n
      \/ m[k] # n[k] }

Rewrote(p, by) ==
  /\ PageReq(p) /\ Answered(p) /\ ctx[p].status = 200
  /\ ctx[p].body.kind = "content" /\ ctx[p].body.by = by

\* C12 (as claimed): a stylesheet in which a url(...) reference cannot be
\* resolved is still answered 200; that reference is left as it was and every
\* other reference that is not a data: url is rewritten.
C12_MalformedTolerated ==
  \A p \in Procs :
    (PageReq(p) /\ Answered(p) /\ req[p].fetch = "success"
       /\ req[p].contentType = "text/css"
       /\ \E i \in 1..Len(req[p].content) : req[p].content[i].form = "bad") =>
      /\ ctx[p].status = 200
      /\ Len(ctx[p].body.details) = Len(req[p].content)
      /\ \A i \in 1..Len(req[p].content) :
           IF req[p].content[i].form \in {"bad", "data"}
           THEN ctx[p].body.details[i] = req[p].content[i]
           ELSE ctx[p].body.details[i].form = "proxied"

\* an opening <head> tag, with or without attributes
OpensHead(tok) == tok.form \in {"head", "headAttr"}

\* C14 (as claimed): when a page with a head and without a <base> tag went
\* through the HTML rewriter, the body holds, immediately after the first
\* opening <head> tag, a <base> tag for the proxied form of the target url,
\* no root-relative reference is left in it, and every root-relative
\* reference of the page is in it as the proxied form of the target origin
\* followed by the reference.
C14_BaseTagAndRoots ==
  \A p \in Procs :
    LET page == req[p].content
        out == ctx[p].body.details
        target == req[p].final
    IN (Rewrote(p, "html")
          /\ (\E i \in 1..Len(page) : OpensHead(page[i]))
          /\ (\A i \in 1..Len(page) : page[i].form # "base")) =>
         /\ \E i \in 1..(Len(out) - 1) :
              /\ OpensHead(out[i])
              /\ \A j \in 1..(i - 1) : ~OpensHead(out[j])
              /\ out[i + 1].form = "baseInjected"
              /\ out[i + 1].url = target /\ out[i + 1].via = "/"
         /\ \A i \in 1..Len(out) : out[i].form # "root"
         /\ \A i \in 1..Len(page) : page[i].form = "root" =>
              \E j \in 1..Len(out) :
                /\ out[j].form = "proxied" /\ out[j].via = "/"
                /\ out[j].url = [scheme |-> target.scheme, host |-> target.host,
                                 path |-> page[i].url.path]

\* C15 (as claimed): in the stylesheet the CSS rewriter returned, every
\* url(...) whose reference is a data: url is as it was in the payload, quoting
\* included, and every other url(...) is the asset path with the
\* percent-encoded absolute form of the reference.
C15_DataUrlsVerbatim ==
  \A p \in Procs :
    LET sheet == req[p].content
        out == ctx[p].body.details
    IN Rewrote(p, "css") =>
         /\ Len(out) = Len(sheet)
         /\ \A i \in 1..Len(sheet) : sheet[i].where \in {"url", "urlq"} =>
              IF sheet[i].url.scheme = "data"
              THEN out[i] = sheet[i]
              ELSE /\ out[i].form = "proxied" /\ out[i].via = "/asset"
                   /\ out[i].url.scheme \in {"http", "https"}
                   /\ out[i].url.host # ""

\* C21 (as claimed): a lookup treats an entry as absent only when its age is
\* above the TTL: every lookup that removed an entry found it older than
\* 3600000 ms, and a lookup that found an entry of at most that age is a hit.
C21_ExpiryAfterTtl ==
  \A p \in Procs : (AssetReq(p) /\ req[p].age >= 0) =>
    /\ req[p].evicted => req[p].age > CACHE_TTL
    /\ req[p].age <= CACHE_TTL => req[p].hit

\* C21 (amended): a lookup treats an entry as absent exactly when its age is
\* the TTL or more: a lookup that finds an entry aged exactly 3600000 ms, or
\* older, is a miss that removes it and goes upstream, and a lookup that finds
\* a younger entry is a hit that leaves it in place; no entry younger than the
\* TTL is ever removed by a lookup.
C21_ExpiryAtTtl ==
  /\ [](\A p \in Procs : (AssetReq(p) /\ req[p].age >= 0) =>
          /\ req[p].age >= CACHE_TTL => (req[p].evicted /\ ~req[p].hit
                                         /\ req[p].upstream = 1)
          /\ req[p].age < CACHE_TTL => (req[p].hit /\ ~req[p].evicted
                                        /\ req[p].upstream = 0))
  /\ [][\A u \in DOMAIN assetCache :
          u \notin DOMAIN assetCache' => now - assetCache[u].timestamp >= CACHE_TTL]_vars

\* a lookup found an entry aged exactly the TTL and removed it
C21_Witness ==
  \E p \in Procs :
    /\ AssetReq(p) /\ req[p].age = CACHE_TTL /\ req[p].evicted
    /\ req[p].pc = "axios" /\ req[p].url \notin DOMAIN assetCache

\* C22: an asset request that hits the cache is answered in the step that
\* takes it, without any upstream request then or later, and that step leaves
\* the whole asset cache as it was: payload, content type and capture
\* timestamp of the entry included.  An entry leaves the cache only in the
\* step that takes an asset request for its own url; the passing of time
\* changes nothing in the cache.
C22_HitFrame ==
  /\ [](\A p \in Procs : (AssetReq(p) /\ req[p].hit) =>
          (Answered(p) /\ req[p].upstream = 0 /\ ~req[p].evicted))
  /\ [][/\ \A p \in Procs :
            (Starts(p) /\ AssetReq(p)' /\ req'[p].hit) =>
              /\ assetCache' = assetCache
              /\ req'[p].url \in DOMAIN assetCache
              /\ ctx'[p].body.details = <<assetCache[req'[p].url].data>>
        /\ \A u \in DOMAIN assetCache \ DOMAIN assetCache' :
             \E p \in Procs : Starts(p) /\ AssetReq(p)' /\ req'[p].url = u
        /\ now' # now => assetCache' = assetCache]_vars

\* a hit half a TTL after the capture: the entry still has its first timestamp
C22_Witness ==
  \E p \in Procs :
    /\ AssetReq(p) /\ req[p].hit /\ req[p].age = TickStep
    /\ req[p].url \in DOMAIN assetCache
    /\ assetCache[req[p].url].timestamp = req[p].t - TickStep

\* C23: under every interleaving of concurrent asset requests, the capture
\* timestamp of every cache entry is at most the time at which its payload
\* was downloaded, which is at most now; and a request that hits the cache is
\* answered with the payload of an entry that was downloaded less than the TTL
\* before the lookup.
C23_Freshness ==
  /\ [](\A u \in DOMAIN assetCache :
          /\ assetCache[u].timestamp <= assetCache[u].fetchedAt
          /\ assetCache[u].fetchedAt <= now)
  /\ [][\A p \in Procs :
          (Starts(p) /\ AssetReq(p)' /\ req'[p].hit) =>
            LET entry == assetCache[req'[p].url]
            IN /\ now - entry.fetchedAt < CACHE_TTL
               /\ now - entry.fetchedAt <= req'[p].age
               /\ ctx'[p].body.details = <<entry.data>>]_vars

\* two downloads of one url overlapped and the one that began first ended
\* last: the entry has the older timestamp of the two, a download time after
\* the other request began, and was then served as a hit
C23_Witness ==
  \E p, q \in Procs :
    /\ p # q /\ AssetReq(p) /\ AssetReq(q) /\ req[p].url = req[q].url
    /\ req[p].hit /\ Answered(q) /\ ~req[q].hit /\ ctx[q].status = 200
    /\ req[p].url \in DOMAIN assetCache
    /\ assetCache[req[p].url].timestamp < req[q].t
    /\ assetCache[req[p].url].fetchedAt >= req[q].t
    /\ req[p].t >= assetCache[req[p].url].fetchedAt

\* fetchPageWithRetry returned the session of its last attempt
Success(p) ==
  /\ req[p].fetch = "success" /\ req[p].pc \in AfterFetchPcs
  /\ req[p].page = req[p].attempt
\* fetchPageWithRetry raised an error: the one of the failed launch, before
\* any attempt, or the one that wraps the last of maxRetries failures
Raised(p) ==
  /\ req[p].fetch \in {"launchFailed", "exhausted"} /\ Answered(p)
  /\ ctx[p].status = 500
  /\ req[p].attempt = IF req[p].fetch = "exhausted" THEN MaxRetries ELSE 0

====
